---- MODULE Spec2Model ----
(***************************************************************************)
(* Model of the Nord Pool price fetcher (main.py), its price store (the    *)
(* lv_prices_<date>.csv files of the saves folder) and the solar discharge *)
(* run (solar_discharge.py).                                               *)
(*                                                                         *)
(* Time is the EET wall clock in seconds since 00:00 of day 0.  A day has  *)
(* 86400 seconds (the modelled days lie in winter, no DST change).  Day 0  *)
(* is 2025-12-20, so that the modelled days cross a year boundary.         *)
(* Strings are sequences of ASCII codes.                                   *)
(***************************************************************************)
EXTENDS Integers, Sequences, FiniteSets, TLC

VARIABLES
  pc,            \* position of the fetcher process (main.py main)
  test_today,    \* args.test_today
  now,           \* the wall clock (seconds since 00:00 of day 0)
  tomorrow,      \* main.py main: the target date string of the iteration
  df,            \* main.py main: result of the last fetch_prices (None or rows)
  next_attempt,  \* main.py main: next_attempt of the waiting branch
  sleep_sec,     \* main.py main: sleep_sec of the waiting branch
  sleep_for,     \* argument of the pending time.sleep
  store,         \* saves/lv_prices_<date>.csv: date string -> rows
  succeeded,     \* history: date strings this process fetched and saved
  branch,        \* history: the branch the last loop iteration took
  resp,          \* history: the last response fetch_prices received (or None)
  published,     \* the instant the source publishes the prices (or None)
  written,       \* history: date string of the last save_to_csv (or None)
  before,        \* history: the store before the last save_to_csv
  dpc,           \* position of the discharge run (solar_discharge.py main)
  test_mode,     \* solar_discharge.py main(test_mode)
  source,        \* history: which file find_peak_slot read
  peak,          \* solar_discharge.py main: peak
  connect_calls, \* history: number of client.connect() calls
  connected,     \* client.connected
  close_calls,   \* history: number of client.close() calls
  regs,          \* history: the register writes that reached the device
  calls,         \* history: the outcome of every write_register call issued
  ret            \* return value of discharge_command (or None)

vars == <<pc, test_today, now, tomorrow, df, next_attempt, sleep_sec, sleep_for,
          store, succeeded, branch, resp, published, written, before,
          dpc, test_mode, source, peak, connect_calls, connected, close_calls,
          regs, calls, ret>>

fetchVars == <<pc, test_today, tomorrow, df, next_attempt, sleep_sec, sleep_for,
               succeeded, branch, resp, published>>
storeVars == <<store, written, before>>
dischargeVars == <<dpc, test_mode, source, peak, connect_calls, connected,
                   close_calls, regs, calls, ret>>

\* An optional value is a sequence of length 0 (None) or 1.
None == <<>>
Some(x) == <<x>>

(***************************************************************************)
(* config.py                                                               *)
(***************************************************************************)
max_files == 10
retry_start_hour == 13
retry_end_hour == 18
retry_minutes == 30
min_price_threshold == 20
discharge_duration_min == 15

(***************************************************************************)
(* Bounds of the model                                                     *)
(***************************************************************************)
FirstDay == 10        \* the fetcher starts on this day (2025-12-30)
RunDays == 2          \* the fetcher is followed for this many days
MaxDate == 10         \* the store specification writes dates 0..MaxDate
MaxRows == 3          \* rows of a price file read by the discharge run

SecondsPerDay == 86400
SecondsPerHour == 3600
SecondsPerMinute == 60

Max(a, b) == IF a >= b THEN a ELSE b
Min(a, b) == IF a <= b THEN a ELSE b

(***************************************************************************)
(* datetime: fields of a wall-clock instant, replace, strftime             *)
(***************************************************************************)
DayOf(t) == t \div SecondsPerDay
HourOf(t) == (t % SecondsPerDay) \div SecondsPerHour
MinuteOf(t) == (t % SecondsPerHour) \div SecondsPerMinute
SecondOf(t) == t % SecondsPerMinute

\* now_eet.replace(hour=h, minute=m, second=0, microsecond=0)
Replace(t, h, m) == DayOf(t) * SecondsPerDay + h * SecondsPerHour + m * SecondsPerMinute

Digit(d) == 48 + d
DASH == 45
COLON == 58

TwoDigits(n) == <<Digit(n \div 10), Digit(n % 10)>>

\* Calendar of the modelled days: day FirstDay + 1 is 2025-12-31 and day
\* FirstDay + 2 is 2026-01-01.
DaysLeftIn2025 == FirstDay + 2
YearOf(n) == IF n < DaysLeftIn2025 THEN 2025 ELSE 2026
MonthOf(n) == IF n < DaysLeftIn2025 THEN 12 ELSE 1
DayOfMonth(n) == IF n < DaysLeftIn2025 THEN 31 - (DaysLeftIn2025 - 1 - n)
                 ELSE n - DaysLeftIn2025 + 1

\* strftime('%Y-%m-%d') of day n
DateStr(n) ==
  TwoDigits(YearOf(n) \div 100) \o TwoDigits(YearOf(n) % 100) \o <<DASH>>
    \o TwoDigits(MonthOf(n)) \o <<DASH>> \o TwoDigits(DayOfMonth(n))

\* strftime('%H:%M') of minute m of the day
TimeStr(m) == TwoDigits(m \div 60) \o <<COLON>> \o TwoDigits(m % 60)

\* Python's str ordering: lexicographic by code point
RECURSIVE StrLess(_, _)
StrLess(a, b) ==
  IF b = <<>> THEN FALSE
  ELSE IF a = <<>> THEN TRUE
  ELSE IF Head(a) # Head(b) THEN Head(a) < Head(b)
  ELSE StrLess(Tail(a), Tail(b))

(***************************************************************************)
(* main.py: fetch_prices                                                   *)
(***************************************************************************)
\* Europe/Riga in winter: UTC+2
EETOffsetMin == 120
MinutesPerDay == 1440

\* One entry of multiAreaEntries: UTC minute of the day of the delivery start
\* and end, and entryPerArea (an optional LV price).
Entry(s, p) == [deliveryStart |-> s, deliveryEnd |-> (s + 15) % MinutesPerDay,
                entryPerArea |-> p]

\* Lines 56-64: one row of the returned frame
RowOf(e) ==
  [StartTime |-> TimeStr((e.deliveryStart + EETOffsetMin) % MinutesPerDay),
   EndTime |-> TimeStr((e.deliveryEnd + EETOffsetMin) % MinutesPerDay),
   Price |-> IF e.entryPerArea = None THEN 0 ELSE e.entryPerArea[1]]

\* A response of the price API, or an exception raised by requests.get
Response(raised, status, entries) ==
  [raised |-> raised, status |-> status, multiAreaEntries |-> entries]

\* The parse without the test that multiAreaEntries is not empty
fetch_prices_EmptyFrame(r) ==
  IF r.raised THEN None
  ELSE IF r.status = 200
       THEN Some([i \in 1..Len(r.multiAreaEntries) |-> RowOf(r.multiAreaEntries[i])])
       ELSE None

fetch_prices(r) ==
  IF r.raised THEN None
  ELSE IF r.status = 200
       THEN IF r.multiAreaEntries # <<>>
            THEN Some([i \in 1..Len(r.multiAreaEntries) |-> RowOf(r.multiAreaEntries[i])])
            ELSE None
       ELSE IF r.status = 204 THEN None
       ELSE None

(***************************************************************************)
(* main.py: the price store.  The key of store is the date part of the     *)
(* file name lv_prices_<date>.csv.                                         *)
(***************************************************************************)
\* A save that appends to an existing file instead of replacing it
save_to_csv_Append(st, date, rows) ==
  [f \in DOMAIN st \cup {date} |->
     IF f = date THEN (IF date \in DOMAIN st THEN st[date] \o rows ELSE rows)
     ELSE st[f]]

save_to_csv(st, date, rows) ==
  [f \in DOMAIN st \cup {date} |-> IF f = date THEN rows ELSE st[f]]

\* files.sort(key=<date part>, reverse=True): the keys are distinct
\* (the i-th file of the sorted list is the one with i - 1 greater keys)
SortedDesc(S) ==
  [i \in 1..Cardinality(S) |->
     CHOOSE x \in S : Cardinality({y \in S : StrLess(x, y)}) = i - 1]

\* The sort without reverse=True: the newest files are deleted
cleanup_old_files_Ascending(st) ==
  IF Cardinality(DOMAIN st) <= max_files THEN st
  ELSE LET files == SortedDesc(DOMAIN st)
           old == {files[i] : i \in 1..(Len(files) - max_files)}
       IN [f \in DOMAIN st \ old |-> st[f]]

cleanup_old_files(st) ==
  IF Cardinality(DOMAIN st) <= max_files THEN st
  ELSE LET files == SortedDesc(DOMAIN st)
           old == {files[i] : i \in (max_files + 1)..Len(files)}
       IN [f \in DOMAIN st \ old |-> st[f]]

(***************************************************************************)
(* main.py: should_attempt_fetch                                           *)
(***************************************************************************)
\* The check without its upper bound
should_attempt_fetch_NoEnd(now_eet) ==
  IF HourOf(now_eet) < retry_start_hour THEN FALSE
  ELSE MinuteOf(now_eet) >= retry_minutes

\* The check on the hour alone, without the minute
should_attempt_fetch_HourOnly(now_eet) ==
  IF HourOf(now_eet) < retry_start_hour THEN FALSE
  ELSE IF HourOf(now_eet) > retry_end_hour THEN FALSE
  ELSE TRUE

should_attempt_fetch(now_eet) ==
  IF HourOf(now_eet) < retry_start_hour THEN FALSE
  ELSE IF HourOf(now_eet) > retry_end_hour THEN FALSE
  ELSE MinuteOf(now_eet) >= retry_minutes

(***************************************************************************)
(* Inputs of the fetcher                                                   *)
(***************************************************************************)
\* The times of day at which the process is started
StartHours == {0, 12, 13, 14, 15, 17, 18, 19, 23}
StartMinutes == {0, 5, 29, 30, 31, 45}
StartSeconds == {0, 30}
StartTimes ==
  {FirstDay * SecondsPerDay + h * SecondsPerHour + m * SecondsPerMinute + s :
     h \in StartHours, m \in StartMinutes, s \in StartSeconds}

\* The fetcher is followed until this instant
Horizon == (FirstDay + RunDays) * SecondsPerDay

\* Two day-sets the API may publish (UTC 22:00 is 00:00 EET)
EntriesA == <<Entry(1320, Some(15)), Entry(1335, Some(25)), Entry(1350, Some(25))>>
EntriesB == <<Entry(1320, Some(10)), Entry(1335, None)>>

Responses ==
  {Response(FALSE, 200, e) : e \in {<<>>, EntriesA, EntriesB}}
    \cup {Response(FALSE, 204, <<>>), Response(FALSE, 500, <<>>),
          Response(TRUE, 0, <<>>)}

RowsA == fetch_prices(Response(FALSE, 200, EntriesA))[1]

\* The saves folder when the process starts: empty, or the files of the
\* max_files days before the first day
OldStore == [f \in {DateStr(n) : n \in (FirstDay - max_files)..(FirstDay - 1)} |-> RowsA]
EmptyStore == [f \in {} |-> RowsA]
InitStores == {EmptyStore, OldStore}

DischargeIdle ==
  /\ dpc = "off"
  /\ test_mode = FALSE
  /\ source = "none"
  /\ peak = None
  /\ connect_calls = 0
  /\ connected = FALSE
  /\ close_calls = 0
  /\ regs = <<>>
  /\ calls = <<>>
  /\ ret = None

(***************************************************************************)
(* main.py: main                                                           *)
(***************************************************************************)
Init ==
  /\ pc = "main"
  /\ test_today \in BOOLEAN
  /\ now \in StartTimes
  /\ tomorrow = None
  /\ df = None
  /\ next_attempt = None
  /\ sleep_sec = None
  /\ sleep_for = None
  /\ store \in InitStores
  /\ succeeded = {}
  /\ branch = "none"
  /\ resp = None
  /\ published = None
  /\ written = None
  /\ before = EmptyStore
  /\ DischargeIdle

\* The one-shot mode without its return: it falls through into the loop
TestToday_FallsThrough ==
  /\ pc = "main"
  /\ test_today
  /\ \E r \in Responses :
       LET today == DateStr(DayOf(now))
           d == fetch_prices(r)
       IN /\ df' = d
          /\ resp' = Some(r)
          /\ IF d # None
             THEN /\ store' = cleanup_old_files(save_to_csv(store, today, d[1]))
                  /\ written' = Some(today)
                  /\ before' = store
                  /\ succeeded' = succeeded \cup {today}
                  /\ branch' = "success"
             ELSE /\ UNCHANGED <<store, written, before, succeeded>>
                  /\ branch' = "failed"
  /\ pc' = "loop"
  /\ UNCHANGED <<test_today, now, tomorrow, next_attempt, sleep_sec, sleep_for,
                 published>>
  /\ UNCHANGED dischargeVars

\* Lines 118-130: the one-shot mode
TestToday ==
  /\ pc = "main"
  /\ test_today
  /\ \E r \in Responses :
       LET today == DateStr(DayOf(now))
           d == fetch_prices(r)
       IN /\ df' = d
          /\ resp' = Some(r)
          /\ IF d # None
             THEN /\ store' = cleanup_old_files(save_to_csv(store, today, d[1]))
                  /\ written' = Some(today)
                  /\ before' = store
                  /\ succeeded' = succeeded \cup {today}
                  /\ branch' = "success"
             ELSE /\ UNCHANGED <<store, written, before, succeeded>>
                  /\ branch' = "failed"
  /\ pc' = "exit"
  /\ UNCHANGED <<test_today, now, tomorrow, next_attempt, sleep_sec, sleep_for,
                 published>>
  /\ UNCHANGED dischargeVars

\* Lines 132-133: entering the 24/7 loop
EnterLoop ==
  /\ pc = "main"
  /\ ~test_today
  /\ pc' = "loop"
  /\ UNCHANGED <<test_today, now, tomorrow, df, next_attempt, sleep_sec, sleep_for,
                 succeeded, branch, resp, published>>
  /\ UNCHANGED storeVars
  /\ UNCHANGED dischargeVars

\* Lines 134-138 and 150-157: the head of an iteration and its waiting branch
LoopCheck ==
  /\ pc = "loop"
  /\ tomorrow' = Some(DateStr(DayOf(now) + 1))
  /\ IF should_attempt_fetch(now)
     THEN /\ pc' = "fetch"
          /\ UNCHANGED <<next_attempt, sleep_sec, sleep_for, branch>>
     ELSE LET first == Replace(now, retry_start_hour, retry_minutes)
              na == IF now > first THEN first + SecondsPerHour ELSE first
          IN /\ next_attempt' = Some(na)
             /\ sleep_sec' = Some(na - now)
             /\ sleep_for' = Some(Max(na - now, 60))
             /\ branch' = "wait"
             /\ pc' = "sleep"
  /\ UNCHANGED <<test_today, now, df, succeeded, resp, published>>
  /\ UNCHANGED storeVars
  /\ UNCHANGED dischargeVars

\* Lines 139-149: the fetch of an eligible iteration
FetchTaking(lat, answers) ==
  /\ pc = "fetch"
  /\ \E r \in Responses :
       LET d == fetch_prices(r)
       IN /\ r \in answers
          /\ df' = d
          /\ resp' = Some(r)
          /\ IF d # None
             THEN /\ store' = cleanup_old_files(save_to_csv(store, tomorrow[1], d[1]))
                  /\ written' = tomorrow
                  /\ before' = store
                  /\ succeeded' = succeeded \cup {tomorrow[1]}
                  /\ branch' = "success"
             ELSE /\ UNCHANGED <<store, written, before, succeeded>>
                  /\ branch' = "failed"
  /\ now' = now + lat
  /\ sleep_for' = Some(SecondsPerHour)
  /\ pc' = "sleep"
  /\ UNCHANGED <<test_today, tomorrow, next_attempt, sleep_sec, published>>
  /\ UNCHANGED dischargeVars

\* The attempt with a request that is answered at once
Fetch == FetchTaking(0, Responses)

\* time.sleep returns
Wake ==
  /\ pc = "sleep"
  /\ now + sleep_for[1] < Horizon
  /\ now' = now + sleep_for[1]
  /\ pc' = "loop"
  /\ UNCHANGED <<test_today, tomorrow, df, next_attempt, sleep_sec, sleep_for,
                 succeeded, branch, resp, published>>
  /\ UNCHANGED storeVars
  /\ UNCHANGED dischargeVars

Next == TestToday \/ EnterLoop \/ LoopCheck \/ Fetch \/ Wake

Spec == Init /\ [][Next]_vars

(***************************************************************************)
(* The monitoring loop on a day on which the source publishes tomorrow's   *)
(* prices: a request made at or after the instant of publication yields    *)
(* the set, an earlier one fails in one of the ways fetch_prices handles.   *)
(* A request is answered at once or when its timeout runs out.  The loop   *)
(* is a sequential process that always takes its next step.                *)
(***************************************************************************)
RequestTimeout == 10

LiveStartTimes ==
  {FirstDay * SecondsPerDay + h * SecondsPerHour + m * SecondsPerMinute + sec :
     h \in {0, 15, 17, 18}, m \in {0, 30, 59}, sec \in {0, 50}}

\* Publication at 13:45, 18:10 or retry_end_hour:retry_minutes of the first day
PublishTimes ==
  {FirstDay * SecondsPerDay + 13 * SecondsPerHour + 45 * SecondsPerMinute,
   FirstDay * SecondsPerDay + 18 * SecondsPerHour + 10 * SecondsPerMinute,
   FirstDay * SecondsPerDay + retry_end_hour * SecondsPerHour
     + retry_minutes * SecondsPerMinute}

InitLive ==
  /\ pc = "main"
  /\ test_today = FALSE
  /\ now \in LiveStartTimes
  /\ published \in {Some(t) : t \in {u \in PublishTimes : now <= u}}
  /\ tomorrow = None
  /\ df = None
  /\ next_attempt = None
  /\ sleep_sec = None
  /\ sleep_for = None
  /\ store \in InitStores
  /\ succeeded = {}
  /\ branch = "none"
  /\ resp = None
  /\ written = None
  /\ before = EmptyStore
  /\ DischargeIdle

\* The set of the day after the day of publication is available from the
\* instant of publication on
Available(date, t) ==
  /\ date = DateStr(DayOf(published[1]) + 1)
  /\ t >= published[1]

\* The answers the source can give to a request for date made at t
Answers(date, t) ==
  IF date = DateStr(DayOf(published[1]) + 1)
  THEN {r \in Responses : fetch_prices(r) # None <=> Available(date, t)}
  ELSE Responses

FetchLive ==
  /\ pc = "fetch"
  /\ \E lat \in {0, RequestTimeout} : FetchTaking(lat, Answers(tomorrow[1], now))

\* time.sleep returns, as long as it does so on the day of publication
WakeLive ==
  /\ Wake
  /\ DayOf(now') = DayOf(published[1])

NextLive == EnterLoop \/ LoopCheck \/ FetchLive \/ WakeLive

SpecLive == InitLive /\ [][NextLive]_vars /\ WF_vars(NextLive)

(***************************************************************************)
(* Properties of the monitoring loop                                       *)
(***************************************************************************)
\* The retry window of the day of t, as the specification states it
WindowStart(t) == Replace(t, retry_start_hour, retry_minutes)
WindowEnd(t) == Replace(t, retry_end_hour, retry_minutes)
InRetryWindow(t) ==
  /\ WindowStart(t) <= t
  /\ Replace(t, HourOf(t), MinuteOf(t)) <= WindowEnd(t)

\* The next hh:retry_minutes strictly after t
NextBoundary(t) ==
  IF t < Replace(t, HourOf(t), retry_minutes)
  THEN Replace(t, HourOf(t), retry_minutes)
  ELSE Replace(t, HourOf(t), retry_minutes) + SecondsPerHour

\* C1: in the monitoring loop a fetch is attempted only when the wall clock
\* lies within [retry_start_hour:retry_minutes, retry_end_hour:retry_minutes].
C1_AttemptOnlyInWindow == pc = "fetch" => InRetryWindow(now)

\* C2: once a fetch for a target date has succeeded and was saved, the loop
\* makes no further fetch attempt for that date.
C2_NoAttemptAfterSuccess == pc = "fetch" => tomorrow[1] \notin succeeded

\* C3: once an iteration has seen the clock past the end of the retry window
\* with no success for the target date, the monitoring run has terminated.
C3_GaveUpTerminates ==
  (/\ branch = "wait"
   /\ HourOf(now) > retry_end_hour
   /\ tomorrow[1] \notin succeeded) => pc = "exit"

\* C3 (amended): past the end of the window (hour > retry_end_hour) no fetch
\* is attempted, an attempt is always for the day after the current day, and
\* the monitoring loop never terminates: it sleeps at least 60 s and iterates.
C3_NoAttemptPastEndButRunning ==
  /\ ~test_today => pc \in {"main", "loop", "fetch", "sleep"}
  /\ pc = "fetch" =>
       /\ HourOf(now) <= retry_end_hour
       /\ tomorrow = Some(DateStr(DayOf(now) + 1))
  /\ (pc = "sleep" /\ branch = "wait") => sleep_for[1] >= 60

C3_Witness ==
  /\ pc = "loop"
  /\ branch = "wait"
  /\ HourOf(now) > retry_end_hour
  /\ df = None
  /\ tomorrow[1] \notin succeeded
  /\ tomorrow[1] \notin DOMAIN store

\* C9: after a failed attempt at a time inside the window the next attempt
\* follows after one hour or the time left in the window, whichever is less.
C9_RetryWaitCappedByWindow ==
  (/\ pc = "sleep"
   /\ branch = "failed"
   /\ InRetryWindow(now)
   /\ now < WindowEnd(now)) =>
     sleep_for[1] = Min(SecondsPerHour,
                        WindowEnd(now) - Replace(now, HourOf(now), MinuteOf(now)))

\* C10: when the time is not eligible and at or after the window start of the
\* day, the computed wake-up instant is the next hh:retry_minutes strictly in
\* the future, and the wait is positive and is the time slept.
C10_ExactNextBoundary ==
  (/\ pc = "sleep"
   /\ branch = "wait"
   /\ now >= WindowStart(now)) =>
     /\ next_attempt[1] = NextBoundary(now)
     /\ sleep_sec[1] > 0
     /\ sleep_sec[1] >= 60 => sleep_for = sleep_sec

\* C11: when the time is before the window start of the day, no attempt is
\* made and the process sleeps exactly until retry_start_hour:retry_minutes.
C11_SleepsExactlyToWindowStart ==
  /\ pc = "fetch" => now >= WindowStart(now)
  /\ (pc = "sleep" /\ branch = "wait" /\ now < WindowStart(now)) =>
       now + sleep_for[1] = WindowStart(now)

\* C11 (amended): before the window start no attempt is made, the wake-up
\* instant computed is the window start of the same day and the process
\* sleeps until then, or for 60 s when less than 60 s are left; it wakes
\* within the minute retry_start_hour:retry_minutes.
C11_SleepsToWindowStartOrOneMinute ==
  /\ pc = "fetch" => now >= WindowStart(now)
  /\ (pc = "sleep" /\ branch = "wait" /\ now < WindowStart(now)) =>
       LET wake == now + sleep_for[1]
       IN /\ next_attempt = Some(WindowStart(now))
          /\ sleep_sec = Some(WindowStart(now) - now)
          /\ sleep_for[1] = Max(WindowStart(now) - now, 60)
          /\ WindowStart(now) - now >= 60 => wake = WindowStart(now)
          /\ WindowStart(now) <= wake
          /\ wake < WindowStart(now) + SecondsPerMinute

\* Scenario C: at 12:00 the process sleeps 90 minutes, until 13:30
C11_Witness ==
  /\ pc = "sleep"
  /\ branch = "wait"
  /\ now = Replace(now, 12, 0)
  /\ next_attempt = Some(Replace(now, retry_start_hour, retry_minutes))
  /\ sleep_for = Some(90 * SecondsPerMinute)

\* C12: in the one-shot mode the fetch for today is made once, at any time of
\* the day, and whatever its outcome the run ends: every step of such a run is
\* that one fetch, from the start to the exit, and the loop is never entered.
C12_OneShotToday ==
  /\ [](test_today =>
         /\ pc \in {"main", "exit"}
         /\ pc = "main" => (resp = None /\ ENABLED TestToday)
         /\ pc = "exit" =>
              /\ resp # None
              /\ tomorrow = None
              /\ sleep_for = None
              /\ df # None => written = Some(DateStr(DayOf(now)))
              /\ df = None => written = None)
  /\ [][test_today => (pc = "main" /\ resp = None /\ pc' = "exit" /\ resp' # None)]_vars

\* A one-shot run at 00:05, outside the window, that got 204 and ended
C12_Witness ==
  /\ test_today
  /\ pc = "exit"
  /\ now = Replace(now, 0, 5)
  /\ resp = Some(Response(FALSE, 204, <<>>))
  /\ df = None

\* A response that yields no slot
NoSlots(r) == r.raised \/ r.status # 200 \/ r.multiAreaEntries = <<>>

\* A step that is a fetch, of the loop or of the one-shot mode
FetchStep == (pc = "fetch" /\ pc' = "sleep") \/ (pc = "main" /\ pc' = "exit")

\* C15: writing the set of the date written last once more, with the data
\* the store holds for it, leaves the store as it is: same dates, same
\* contents, no further eviction.
C15_RewriteIsIdempotent ==
  [][(/\ FetchStep
      /\ df' # None
      /\ written' = written
      /\ written # None
      /\ written[1] \in DOMAIN store
      /\ store[written[1]] = df'[1]) => store' = store]_vars

\* Tomorrow's set was written twice with the same data to a full store: the
\* first write evicted the oldest file, the second one changed nothing
C15_Witness ==
  /\ pc = "sleep"
  /\ branch = "success"
  /\ written = tomorrow
  /\ before = store
  /\ Cardinality(DOMAIN store) = max_files
  /\ DateStr(FirstDay - max_files) \notin DOMAIN store
  /\ DateStr(FirstDay - max_files + 1) \in DOMAIN store

\* C16: a fetch that yields no slot (204, another status, an exception, a 200
\* without entries) leaves the price store unchanged, in the loop and in the
\* one-shot mode.
C16_FailedFetchKeepsStore ==
  [][(FetchStep /\ NoSlots(resp'[1])) =>
       (store' = store /\ written' = written /\ df' = None)]_vars

\* A 200 without entries after a successful fetch of the same date: the set
\* stored for the date is still there
C16_Witness ==
  /\ pc = "sleep"
  /\ branch = "failed"
  /\ resp = Some(Response(FALSE, 200, <<>>))
  /\ written = tomorrow
  /\ tomorrow[1] \in DOMAIN store
  /\ store[tomorrow[1]] = RowsA

\* C18: when tomorrow's prices are published at or before
\* retry_end_hour:retry_minutes and the loop was started before that, the set
\* for tomorrow is in the store at some instant of that same day.
C18_WrittenTheSameDay ==
  <>(/\ DayOf(now) = FirstDay
     /\ DateStr(FirstDay + 1) \in DOMAIN store)

(***************************************************************************)
(* The price store on its own: successive writes of a fetched set, each    *)
(* followed by the retention cleanup (main.py lines 123-125 and 141-143),  *)
(* for the dates of arbitrary days.                                        *)
(***************************************************************************)
\* The days written: half of them in 2025, half in 2026
StoreDays == (DaysLeftIn2025 - 6)..(DaysLeftIn2025 - 6 + MaxDate)

FetcherIdle ==
  /\ pc = "off"
  /\ test_today = FALSE
  /\ tomorrow = None
  /\ df = None
  /\ next_attempt = None
  /\ sleep_sec = None
  /\ sleep_for = None
  /\ succeeded = {}
  /\ branch = "none"
  /\ resp = None
  /\ published = None

InitStore ==
  /\ FetcherIdle
  /\ now = 0
  /\ store = EmptyStore
  /\ written = None
  /\ before = EmptyStore
  /\ DischargeIdle

StoreWrite(d) ==
  /\ store' = cleanup_old_files(save_to_csv(store, DateStr(d), RowsA))
  /\ written' = Some(DateStr(d))
  /\ before' = store
  /\ UNCHANGED now
  /\ UNCHANGED fetchVars
  /\ UNCHANGED dischargeVars

NextStore == \E d \in StoreDays : StoreWrite(d)

SpecStore == InitStore /\ [][NextStore]_vars

\* The day a date string names
DayNumber(str) == CHOOSE n \in 0..(DaysLeftIn2025 + MaxDate) : DateStr(n) = str

\* The files present after the last save, before the cleanup
Saved == DOMAIN before \cup {written[1]}
Evicted == Saved \ DOMAIN store

\* C6: after a write followed by cleanup_old_files at most max_files sets are
\* stored, nothing is evicted unless the count exceeded max_files, every set
\* that remains is of a later day than every set evicted and is unchanged.
C6_RetentionOldestFirst ==
  written # None =>
    /\ Cardinality(DOMAIN store) = Min(max_files, Cardinality(Saved))
    /\ DOMAIN store \subseteq Saved
    /\ \A r \in DOMAIN store : \A e \in Evicted : DayNumber(e) < DayNumber(r)
    /\ \A r \in DOMAIN store \cap DOMAIN before : r # written[1] => store[r] = before[r]

\* max_files + 1 distinct dates were present and only the smallest is gone,
\* across the year boundary
C6_Witness ==
  /\ written # None
  /\ Cardinality(Saved) = max_files + 1
  /\ Cardinality(Evicted) = 1
  /\ \E e \in Evicted : YearOf(DayNumber(e)) = 2025
  /\ \E r \in DOMAIN store : YearOf(DayNumber(r)) = 2026

\* C7: the set just written is still in the store after the cleanup.
C7_WrittenSetSurvives == written # None => written[1] \in DOMAIN store

(***************************************************************************)
(* solar_discharge.py: find_peak_slot                                      *)
(***************************************************************************)
\* Lines 58-62: the file read, tomorrow's or else today's
PeakFile(st, t) ==
  IF DateStr(DayOf(t) + 1) \in DOMAIN st THEN "tomorrow"
  ELSE IF DateStr(DayOf(t)) \in DOMAIN st THEN "today"
  ELSE "none"

\* A filter that keeps every row, whatever its price
Filtered_NoThreshold(rows) == [i \in 1..Len(rows) |-> i]

\* df[df['Price'] >= threshold]: the indices kept, in file order
Filtered(rows) ==
  LET F[i \in 0..Len(rows)] ==
        IF i = 0 THEN <<>>
        ELSE IF rows[i].Price >= min_price_threshold THEN Append(F[i - 1], i)
        ELSE F[i - 1]
  IN F[Len(rows)]

\* A scan that keeps the last of equal maxima
idxmax_Last(rows, idx) ==
  LET B[k \in 1..Len(idx)] ==
        IF k = 1 THEN idx[1]
        ELSE IF rows[idx[k]].Price >= rows[B[k - 1]].Price THEN idx[k]
        ELSE B[k - 1]
  IN B[Len(idx)]

\* Series.idxmax: the label of the first occurrence of the maximum
idxmax(rows, idx) ==
  LET B[k \in 1..Len(idx)] ==
        IF k = 1 THEN idx[1]
        ELSE IF rows[idx[k]].Price > rows[B[k - 1]].Price THEN idx[k]
        ELSE B[k - 1]
  IN B[Len(idx)]

find_peak_slot(st, t) ==
  LET file == PeakFile(st, t)
      rows == IF file = "tomorrow" THEN st[DateStr(DayOf(t) + 1)]
              ELSE st[DateStr(DayOf(t))]
  IN IF file = "none" THEN None
     ELSE IF Filtered(rows) = <<>> THEN None
     ELSE LET peak_row == rows[idxmax(rows, Filtered(rows))]
          IN Some([start_time |-> peak_row.StartTime,
                   end_time |-> peak_row.EndTime,
                   price |-> peak_row.Price])

(***************************************************************************)
(* solar_discharge.py: discharge_command                                   *)
(***************************************************************************)
REG_START_HOUR == 282    \* 0x011A
REG_START_MIN == 283     \* 0x011B
REG_DURATION == 284      \* 0x011C
REG_MODE == 256          \* 0x0100
TIMED_DISCHARGE == 35

\* int() of a string of two digits
ParseInt(str) == (str[1] - Digit(0)) * 10 + (str[2] - Digit(0))

\* start_time.split(':') of an HH:MM string
SplitHour(str) == SubSeq(str, 1, 2)
SplitMinute(str) == SubSeq(str, 4, 5)

\* Lines 95-98: the register writes, in order
RegisterWrites(start_time, duration_min) ==
  <<<<REG_START_HOUR, ParseInt(SplitHour(start_time))>>,
    <<REG_START_MIN, ParseInt(SplitMinute(start_time))>>,
    <<REG_DURATION, duration_min>>,
    <<REG_MODE, TIMED_DISCHARGE>>>>

(***************************************************************************)
(* Inputs of the discharge run                                             *)
(***************************************************************************)
PriceValues == {15, 20, 25}
PriceSeqs == UNION {[1..n -> PriceValues] : n \in 0..MaxRows}

\* The local minute of the day of the first slot of a file
FirstSlots == {0, 810}

\* The rows the fetcher stores for consecutive slots with these prices
RowsFor(prices, first) ==
  [i \in 1..Len(prices) |->
     RowOf(Entry((first + 15 * (i - 1) + MinutesPerDay - EETOffsetMin) % MinutesPerDay,
                 Some(prices[i])))]

RowSets == {RowsFor(p, f) : p \in PriceSeqs, f \in FirstSlots}

DischargeTime == FirstDay * SecondsPerDay + 12 * SecondsPerHour
TodayStr == DateStr(DayOf(DischargeTime))
TomorrowStr == DateStr(DayOf(DischargeTime) + 1)

\* The saves folder of a discharge run: tomorrow's file present (with or
\* without today's), only today's file, or neither
DischargeStores ==
  {[f \in {TomorrowStr} |-> r] : r \in RowSets}
    \cup {[f \in {TodayStr, TomorrowStr} |-> IF f = TodayStr THEN RowsA ELSE r] :
            r \in RowSets}
    \cup {[f \in {TodayStr} |-> r] : r \in RowSets}
    \cup {EmptyStore}

(***************************************************************************)
(* solar_discharge.py: main                                                *)
(***************************************************************************)
InitDischarge ==
  /\ FetcherIdle
  /\ now = DischargeTime
  /\ store \in DischargeStores
  /\ written = None
  /\ before = EmptyStore
  /\ dpc = "main"
  /\ test_mode \in BOOLEAN
  /\ source = "none"
  /\ peak = None
  /\ connect_calls = 0
  /\ connected = FALSE
  /\ close_calls = 0
  /\ regs = <<>>
  /\ calls = <<>>
  /\ ret = None

\* Lines 124-138: peak selection and the early returns
FindPeak ==
  /\ dpc = "main"
  /\ peak' = find_peak_slot(store, now)
  /\ source' = PeakFile(store, now)
  /\ dpc' = IF peak' = None THEN "done"
            ELSE IF test_mode THEN "done"
            ELSE "connect"
  /\ UNCHANGED <<test_mode, connect_calls, connected, close_calls, regs, calls,
                 ret>>
  /\ UNCHANGED <<now>>
  /\ UNCHANGED fetchVars
  /\ UNCHANGED storeVars

\* Lines 82-91: client.connect() and the check of client.connected
Connect ==
  /\ dpc = "connect"
  /\ connect_calls' = connect_calls + 1
  /\ \E ok \in BOOLEAN :
       /\ connected' = ok
       /\ IF ok
          THEN dpc' = "write" /\ UNCHANGED ret
          ELSE dpc' = "done" /\ ret' = Some(FALSE)
  /\ UNCHANGED <<test_mode, source, peak, close_calls, regs, calls>>
  /\ UNCHANGED <<now>>
  /\ UNCHANGED fetchVars
  /\ UNCHANGED storeVars

\* What a write_register call can do: write the register and return, raise
\* (the connection dropped), or return an error response (the device rejected
\* the request; nothing is written and nothing is raised)
WriteOutcomes == {"ok", "raised", "error"}

\* Lines 94-98: the next register write.  The value write_register returns
\* is discarded, so only a raised exception reaches the except clause.
WriteRegister ==
  /\ dpc = "write"
  /\ \E o \in WriteOutcomes :
       LET w == RegisterWrites(peak[1].start_time, discharge_duration_min)
           k == Len(calls) + 1
       IN /\ calls' = Append(calls, o)
          /\ regs' = IF o = "ok" THEN Append(regs, w[k]) ELSE regs
          /\ IF o = "raised"
             THEN /\ ret' = Some(FALSE)
                  /\ dpc' = "done"
             ELSE /\ dpc' = IF k = Len(w) THEN "close" ELSE "write"
                  /\ UNCHANGED ret
  /\ UNCHANGED <<test_mode, source, peak, connect_calls, connected, close_calls>>
  /\ UNCHANGED <<now>>
  /\ UNCHANGED fetchVars
  /\ UNCHANGED storeVars

\* Lines 99-101: client.close() and the return of True
Close ==
  /\ dpc = "close"
  /\ close_calls' = close_calls + 1
  /\ connected' = FALSE
  /\ ret' = Some(TRUE)
  /\ dpc' = "done"
  /\ UNCHANGED <<test_mode, source, peak, connect_calls, regs, calls>>
  /\ UNCHANGED <<now>>
  /\ UNCHANGED fetchVars
  /\ UNCHANGED storeVars

NextDischarge == FindPeak \/ Connect \/ WriteRegister \/ Close

SpecDischarge == InitDischarge /\ [][NextDischarge]_vars

(***************************************************************************)
(* Properties of the discharge run                                         *)
(***************************************************************************)
\* C4: discharge_command closes the device connection on every exit path:
\* when it has returned, on success or after a failure, no connection is
\* left open.
C4_ClosedOnEveryExit == ret # None => ~connected

\* The rows of the file find_peak_slot read
RowsRead ==
  IF source = "tomorrow" THEN store[TomorrowStr]
  ELSE IF source = "today" THEN store[TodayStr]
  ELSE <<>>

MaxPrice(rows) ==
  CHOOSE p \in {rows[i].Price : i \in 1..Len(rows)} :
    \A i \in 1..Len(rows) : rows[i].Price <= p

\* C5: peak selection returns the first slot, in file order and by start
\* time, among the slots that share the maximum price when that maximum is
\* >= the threshold, and absence when no slot reaches the threshold or the
\* file has no rows.
C5_PeakIsFirstMaximum ==
  dpc # "main" =>
    LET rows == RowsRead
    IN IF rows = <<>> \/ MaxPrice(rows) < min_price_threshold
       THEN peak = None
       ELSE /\ peak # None
            /\ peak[1].price = MaxPrice(rows)
            /\ \E j \in 1..Len(rows) :
                 /\ rows[j].Price = MaxPrice(rows)
                 /\ \A i \in 1..(j - 1) : rows[i].Price < MaxPrice(rows)
                 /\ peak[1].start_time = rows[j].StartTime
                 /\ peak[1].end_time = rows[j].EndTime
            /\ \A i \in 1..Len(rows) :
                 rows[i].Price = MaxPrice(rows) =>
                   ~StrLess(rows[i].StartTime, peak[1].start_time)

\* Scenario A: prices 15, 25, 25 from 00:00 select the slot 00:15-00:30
C5_Witness ==
  /\ dpc # "main"
  /\ source = "tomorrow"
  /\ Len(RowsRead) = 3
  /\ RowsRead[1].Price = 15 /\ RowsRead[2].Price = 25 /\ RowsRead[3].Price = 25
  /\ peak = Some([start_time |-> TimeStr(15), end_time |-> TimeStr(30), price |-> 25])

\* C8: in a production run (not test_mode) the device is never contacted on
\* the basis of today's set read because tomorrow's set is absent.
C8_NoSilentFallbackInProduction ==
  (~test_mode /\ source = "today") => (connect_calls = 0 /\ regs = <<>>)

\* C13: a failed connect or a failed register write makes discharge_command
\* report failure (it never returns True after a failure), no register write
\* is issued after the failing one, and the run connects at most once.
C13_FailureReportedNoRetry ==
  /\ connect_calls <= 1
  /\ (dpc = "done" /\ connect_calls = 1 /\ calls = <<>>) => ret = Some(FALSE)
  /\ \A i \in 1..Len(calls) :
       calls[i] # "ok" => (i = Len(calls) /\ ret # Some(TRUE))
  /\ ret = Some(FALSE) => dpc = "done"

\* C14: the device is contacted only in a run that is not a dry run and whose
\* peak selection returned a slot of at least min_price_threshold; a dry run
\* and a run without a qualifying slot end with no device call at all.
C14_DeviceOnlyForLivePeak ==
  /\ (connect_calls > 0 \/ calls # <<>> \/ regs # <<>> \/ close_calls > 0) =>
       /\ ~test_mode
       /\ peak # None
       /\ peak[1].price >= min_price_threshold
  /\ (dpc # "main" /\ \A i \in 1..Len(RowsRead) : RowsRead[i].Price < min_price_threshold)
       => peak = None
  /\ (dpc # "main" /\ (test_mode \/ peak = None)) =>
       /\ dpc = "done"
       /\ connect_calls = 0
       /\ calls = <<>>
       /\ ret = None

\* A dry run that found a qualifying peak and ended without a device call
C14_Witness ==
  /\ dpc = "done"
  /\ test_mode
  /\ peak # None
  /\ peak[1].price = 25
  /\ connect_calls = 0
  /\ calls = <<>>

\* C17: the mode register holds TIMED_DISCHARGE only when the start hour, the
\* start minute and the duration were written before it, without a failure,
\* with the values of the selected slot and of the configuration.
C17_ModeAfterParameters ==
  (\E i \in 1..Len(regs) : regs[i][1] = REG_MODE) =>
     /\ \A j \in 1..Len(calls) : calls[j] = "ok"
     /\ \E m \in 0..(MinutesPerDay - 1) :
          /\ TimeStr(m) = peak[1].start_time
          /\ regs = <<<<REG_START_HOUR, m \div 60>>,
                      <<REG_START_MIN, m % 60>>,
                      <<REG_DURATION, discharge_duration_min>>,
                      <<REG_MODE, TIMED_DISCHARGE>>>>

====
